---------------------------- MODULE Spec2Model ----------------------------
(***************************************************************************)
(* A model of http-extend (src/index.ts): the four request transforms      *)
(* addBody, addXhr, addUrlObj and addCookies, together with the parts of   *)
(* the JavaScript runtime they rest on (the request's event stream,        *)
(* promises, Object.assign, JSON.parse, querystring.parse, url.parse,      *)
(* decodeURIComponent, String.prototype.split/slice/indexOf).              *)
(*                                                                         *)
(* Text is a TLA+ string, a Buffer is a sequence of byte values, a         *)
(* JavaScript object is a function from its own property names.            *)
(***************************************************************************)
EXTENDS Integers, Sequences, FiniteSets, TLC

VARIABLES
    sent,     \* the request as the server received it: [headers, url]
    req,      \* the request object, a function from its property names
    budget,   \* the chunks and bytes the client may still send
    log,      \* the events the stream has emitted so far, in order
    inv,      \* the addBody invocations: listeners, chunks, promise chain
    thrown    \* the synchronous transforms that threw

vars == <<sent, req, budget, log, inv, thrown>>

---------------------------------------------------------------------------
(* Bounds of the model. *)

MaxChunks == 2
MaxBytes == 2
MaxCookieLen == 4
MaxListedCookieLen == 1

---------------------------------------------------------------------------
(* Strings. *)

\* The printable ASCII characters, code 32 to 126, in order (code 96, the
\* backquote, cannot be written in a string here and is held by a blank).
Ascii == " !\"#$%&'()*+,-./0123456789:;<=>?@ABCDEFGHIJKLMNOPQRSTUVWXYZ[\\]^_ abcdefghijklmnopqrstuvwxyz{|}~"

Upper == "ABCDEFGHIJKLMNOPQRSTUVWXYZ"
Lower == "abcdefghijklmnopqrstuvwxyz"

\* Stands for U+FFFD, which a TLA+ string cannot hold; no byte of the
\* model's alphabet decodes to this character otherwise.
ReplacementChar == "~"

At(s, i) == SubSeq(s, i, i)

\* String.prototype.indexOf(c, from) for a one-character c; 0-based, -1
\* when c does not occur.
RECURSIVE IndexFrom(_, _, _)
IndexFrom(s, c, from) ==
    IF from >= Len(s) THEN -1
    ELSE IF At(s, from + 1) = c THEN from
    ELSE IndexFrom(s, c, from + 1)

IndexOf(s, c) == IndexFrom(s, c, 0)

\* String.prototype.slice(start, end): a negative index counts from the end.
Slice(s, start, end) ==
    LET n == Len(s)
        from == IF start < 0 THEN (IF n + start < 0 THEN 0 ELSE n + start)
                ELSE (IF start > n THEN n ELSE start)
        to == IF end < 0 THEN (IF n + end < 0 THEN 0 ELSE n + end)
              ELSE (IF end > n THEN n ELSE end)
    IN  IF from >= to THEN "" ELSE SubSeq(s, from + 1, to)

SliceFrom(s, start) == Slice(s, start, Len(s))

Contains(s, sub) ==
    \E i \in 1..(Len(s) - Len(sub) + 1) : SubSeq(s, i, i + Len(sub) - 1) = sub

EndsWith(s, sub) ==
    /\ Len(s) >= Len(sub)
    /\ SubSeq(s, Len(s) - Len(sub) + 1, Len(s)) = sub

StartsWith(s, sub) ==
    /\ Len(s) >= Len(sub)
    /\ SubSeq(s, 1, Len(sub)) = sub

\* The characters of a string, as a set.
CharsOf(s) == {At(s, i) : i \in 1..Len(s)}

LowerOf == [c \in CharsOf(Upper) |-> At(Lower, IndexOf(Upper, c) + 1)]

ToLowerChar(c) == IF c \in DOMAIN LowerOf THEN LowerOf[c] ELSE c

RECURSIVE ToLowerFrom(_, _)
ToLowerFrom(s, i) ==
    IF i > Len(s) THEN "" ELSE ToLowerChar(At(s, i)) \o ToLowerFrom(s, i + 1)

\* String.prototype.toLowerCase()
ToLower(s) == ToLowerFrom(s, 1)

\* The 0-based index of the first character of s that is one of chars, the
\* length of s when there is none.
RECURSIVE FirstOfAny(_, _, _)
FirstOfAny(s, chars, from) ==
    IF from >= Len(s) THEN Len(s)
    ELSE IF At(s, from + 1) \in chars THEN from
    ELSE FirstOfAny(s, chars, from + 1)

\* Every string over the characters of alphabet, of length at most n.
RECURSIVE StringsUpTo(_, _)
StringsUpTo(alphabet, n) ==
    IF n = 0 THEN {""}
    ELSE LET shorter == StringsUpTo(alphabet, n - 1)
         IN  shorter \cup {s \o At(alphabet, i) :
                               s \in shorter, i \in 1..Len(alphabet)}

---------------------------------------------------------------------------
(* JavaScript values.  Every value is a record [t, v], so that values of   *)
(* different types can be compared.                                        *)

Undefined == [t |-> "undefined", v |-> <<>>]
Null == [t |-> "null", v |-> <<>>]
Str(s) == [t |-> "string", v |-> s]
Num(n) == [t |-> "number", v |-> n]
Arr(elements) == [t |-> "array", v |-> elements]
Obj(properties) == [t |-> "object", v |-> properties]
Buf(bytes) == [t |-> "Buffer", v |-> bytes]
Err(name, message) == [t |-> "Error", v |-> [name |-> name, message |-> message]]

\* The outcome of a call: a returned value or a thrown one.
Return(value) == [threw |-> FALSE, value |-> value]
Throw(error) == [threw |-> TRUE, value |-> error]

\* The object with no properties.
EmptyObject == [k \in {} |-> Undefined]

\* Object.assign(target, source) on the properties of two objects.
ObjectAssign(target, source) ==
    [k \in DOMAIN target \cup DOMAIN source |->
        IF k \in DOMAIN source THEN source[k] ELSE target[k]]

\* target[name] = value
SetProperty(target, name, value) ==
    [k \in DOMAIN target \cup {name} |-> IF k = name THEN value ELSE target[k]]

---------------------------------------------------------------------------
(* Buffers. *)

\* The byte values the client's chunks are made of: "1", "[", "]" and
\* 0xFF, a byte that is never valid in UTF-8.
ByteAlphabet == {49, 91, 93, 255}

\* Buffer.concat(chunks)
RECURSIVE BufferConcat(_)
BufferConcat(chunks) ==
    IF chunks = <<>> THEN <<>> ELSE Head(chunks) \o BufferConcat(Tail(chunks))

Chr(code) == At(Ascii, code - 31)

\* Buffer.prototype.toString('utf8'): an ASCII byte is its character, a byte
\* that starts no valid UTF-8 sequence becomes U+FFFD.  (Multi-byte
\* sequences cannot be spelled with ByteAlphabet.)
RECURSIVE Utf8ToString(_)
Utf8ToString(bytes) ==
    IF bytes = <<>> THEN ""
    ELSE (IF Head(bytes) < 128 THEN Chr(Head(bytes)) ELSE ReplacementChar)
         \o Utf8ToString(Tail(bytes))

---------------------------------------------------------------------------
(* JSON.parse, for the JSON texts the model's characters can spell:        *)
(* whitespace, unsigned integers and arrays.  Any other character is an    *)
(* unexpected token.                                                       *)

DecimalDigits == "0123456789"
DigitChars == CharsOf(DecimalDigits)
IsDigit(c) == c \in DigitChars

RECURSIVE SkipWs(_, _)
SkipWs(s, i) == IF i <= Len(s) /\ At(s, i) = " " THEN SkipWs(s, i + 1) ELSE i

RECURSIVE DigitsEnd(_, _)
DigitsEnd(s, i) ==
    IF i <= Len(s) /\ IsDigit(At(s, i)) THEN DigitsEnd(s, i + 1) ELSE i

RECURSIVE NumberValue(_)
NumberValue(digits) ==
    IF digits = "" THEN 0
    ELSE 10 * NumberValue(SubSeq(digits, 1, Len(digits) - 1))
         + IndexOf(DecimalDigits, At(digits, Len(digits)))

JsonFail(i) == [ok |-> FALSE, val |-> Undefined, next |-> i]
JsonOk(val, next) == [ok |-> TRUE, val |-> val, next |-> next]

\* A number starting at i: 0, or a non-zero digit and the digits after it.
JsonNumber(s, i) ==
    IF At(s, i) = "0" THEN JsonOk(Num(0), i + 1)
    ELSE LET e == DigitsEnd(s, i)
         IN  JsonOk(Num(NumberValue(SubSeq(s, i, e - 1))), e)

RECURSIVE JsonValue(_, _), JsonElements(_, _, _)
JsonValue(s, i) ==
    LET j == SkipWs(s, i)
    IN  IF j > Len(s) THEN JsonFail(j)
        ELSE IF IsDigit(At(s, j)) THEN JsonNumber(s, j)
        ELSE IF At(s, j) = "["
             THEN LET k == SkipWs(s, j + 1)
                  IN  IF k <= Len(s) /\ At(s, k) = "]"
                      THEN JsonOk(Arr(<<>>), k + 1)
                      ELSE JsonElements(s, k, <<>>)
        ELSE JsonFail(j)

JsonElements(s, i, acc) ==
    LET r == JsonValue(s, i)
    IN  IF ~r.ok THEN r
        ELSE LET k == SkipWs(s, r.next)
             IN  IF k > Len(s) THEN JsonFail(k)
                 ELSE IF At(s, k) = ","
                      THEN JsonElements(s, k + 1, Append(acc, r.val))
                 ELSE IF At(s, k) = "]"
                      THEN JsonOk(Arr(Append(acc, r.val)), k + 1)
                 ELSE JsonFail(k)

JsonSyntaxError(s, i) ==
    Err("SyntaxError",
        IF i > Len(s) THEN "Unexpected end of JSON input"
        ELSE "Unexpected token " \o At(s, i) \o " in JSON at position "
             \o ToString(i - 1))

JsonParse(s) ==
    LET r == JsonValue(s, 1)
        k == SkipWs(s, r.next)
    IN  IF ~r.ok THEN Throw(JsonSyntaxError(s, r.next))
        ELSE IF k <= Len(s) THEN Throw(JsonSyntaxError(s, k))
        ELSE Return(r.val)

---------------------------------------------------------------------------
(* Percent-decoding and query strings. *)

HexDigits == "0123456789abcdef"
HexValues == [c \in CharsOf(HexDigits) |-> IndexOf(HexDigits, c)]
HexValue(c) ==
    IF ToLowerChar(c) \in DOMAIN HexValues THEN HexValues[ToLowerChar(c)] ELSE -1

\* Whether a well-formed escape %XX starts at position i of s.
IsEscapeAt(s, i) ==
    /\ At(s, i) = "%"
    /\ i + 2 <= Len(s)
    /\ HexValue(At(s, i + 1)) >= 0
    /\ HexValue(At(s, i + 2)) >= 0

EscapeCode(s, i) == 16 * HexValue(At(s, i + 1)) + HexValue(At(s, i + 2))

\* decodeURIComponent(s): throws URIError at a "%" that starts no escape and
\* at an escaped byte that is no UTF-8 sequence of its own.  (Escapes of
\* multi-byte sequences cannot be spelled with the model's alphabets.)
RECURSIVE DecodeURIComponentFrom(_, _, _)
DecodeURIComponentFrom(s, i, acc) ==
    IF i > Len(s) THEN Return(acc)
    ELSE IF At(s, i) # "%" THEN DecodeURIComponentFrom(s, i + 1, acc \o At(s, i))
    ELSE IF IsEscapeAt(s, i) /\ EscapeCode(s, i) < 128
         THEN DecodeURIComponentFrom(s, i + 3, acc \o Chr(EscapeCode(s, i)))
    ELSE Throw(Err("URIError", "URI malformed"))

DecodeURIComponent(s) == DecodeURIComponentFrom(s, 1, "")

\* querystring.unescape's fallback when decodeURIComponent throws: every
\* well-formed escape is decoded, anything else is kept as it is.
RECURSIVE UnescapeLenient(_, _, _)
UnescapeLenient(s, i, acc) ==
    IF i > Len(s) THEN acc
    ELSE IF IsEscapeAt(s, i) /\ EscapeCode(s, i) < 128
         THEN UnescapeLenient(s, i + 3, acc \o Chr(EscapeCode(s, i)))
    ELSE UnescapeLenient(s, i + 1, acc \o At(s, i))

RECURSIVE PlusToSpaceFrom(_, _)
PlusToSpaceFrom(s, i) ==
    IF i > Len(s) THEN ""
    ELSE (IF At(s, i) = "+" THEN " " ELSE At(s, i)) \o PlusToSpaceFrom(s, i + 1)

PlusToSpace(s) == PlusToSpaceFrom(s, 1)

\* How querystring.parse decodes a key or a value: never throws.
QsUnescape(s) ==
    LET t == PlusToSpace(s)
        r == DecodeURIComponent(t)
    IN  IF r.threw THEN UnescapeLenient(t, 1, "") ELSE r.value

\* String.prototype.split(sep) for a one-character separator.
RECURSIVE Split(_, _)
Split(s, sep) ==
    LET i == IndexOf(s, sep)
    IN  IF i < 0 THEN <<s>>
        ELSE <<Slice(s, 0, i)>> \o Split(SliceFrom(s, i + 1), sep)

\* querystring.parse(text): the pairs are separated by "&", a pair is split
\* at its first "=", an empty pair is skipped, a pair without "=" has the
\* empty value, and a repeated key collects its values in a list.
RECURSIVE QsCollect(_, _)
QsCollect(pairs, obj) ==
    IF pairs = <<>> THEN obj
    ELSE LET pair == Head(pairs)
             i == IndexOf(pair, "=")
             key == QsUnescape(IF i < 0 THEN pair ELSE Slice(pair, 0, i))
             value == IF i < 0 THEN "" ELSE QsUnescape(SliceFrom(pair, i + 1))
             next == IF pair = "" THEN obj
                     ELSE IF key \notin DOMAIN obj
                          THEN SetProperty(obj, key, Str(value))
                     ELSE IF obj[key].t = "array"
                          THEN SetProperty(obj, key,
                                           Arr(Append(obj[key].v, Str(value))))
                     ELSE SetProperty(obj, key, Arr(<<obj[key], Str(value)>>))
         IN  QsCollect(Tail(pairs), next)

QsParse(text) == Obj(QsCollect(Split(text, "&"), EmptyObject))

---------------------------------------------------------------------------
(* The request and its stream. *)

Bool(b) == [t |-> "boolean", v |-> b]

\* req.headers[name]: undefined when the header is absent.
Header(request, name) ==
    IF name \in DOMAIN request["headers"].v
    THEN request["headers"].v[name] ELSE Undefined

\* The request object the server hands to the transforms.
NewRequest(headers, url) == ("headers" :> Obj(headers)) @@ ("url" :> Str(url))

\* Every byte sequence of length at most n.
RECURSIVE ByteSeqs(_)
ByteSeqs(n) ==
    IF n = 0 THEN {<<>>}
    ELSE LET shorter == ByteSeqs(n - 1)
         IN  shorter \cup {Append(b, c) : b \in shorter, c \in ByteAlphabet}

\* The chunks the client may send with n bytes left.
ChunksWithin == [n \in 0..MaxBytes |-> ByteSeqs(n)]

\* The errors the stream may emit.
StreamCauses == {"ECONNRESET", "EPIPE"}

Event(name, arg) == [ev |-> name, arg |-> arg]

Emitted(name) == \E k \in 1..Len(log) : log[k].ev = name

---------------------------------------------------------------------------
(* Promises. *)

Pending == [state |-> "pending", value |-> Undefined]
Fulfilled(value) == [state |-> "fulfilled", value |-> value]
Rejected(reason) == [state |-> "rejected", value |-> reason]

\* A resolve function that settles the promise again on every call.
ResolveUnguarded(p, value) == Fulfilled(value)

\* The resolve and reject functions of a promise: the first call settles
\* it, every later call does nothing.
Resolve(p, value) == IF p.state = "pending" THEN Fulfilled(value) ELSE p
Reject(p, reason) == IF p.state = "pending" THEN Rejected(reason) ELSE p

\* What p.then(callback) becomes once p is settled: the callback's outcome
\* when p is fulfilled, p's rejection otherwise.
Then(p, outcome) ==
    IF p.state = "rejected" THEN Rejected(p.value)
    ELSE IF outcome.threw THEN Rejected(outcome.value)
    ELSE Fulfilled(outcome.value)

\* The value addBody's promise is fulfilled with: the request object itself.
ReqRef == [t |-> "ref", v |-> "req"]

---------------------------------------------------------------------------
(* addBody. *)

Invocations == 1..2

NotCalled ==
    [called |-> FALSE, contentType |-> "", chunks |-> <<>>,
     p1 |-> Pending, p2 |-> Pending, p3 |-> Pending,
     subAt |-> 0, concats |-> 0]

\* req.headers['content-type'] || ''
ContentTypeOf(request) ==
    LET h == Header(request, "content-type")
    IN  IF h = Undefined THEN "" ELSE h.v

\* /application\/json/i.test(contentType)
IsJson(contentType) == Contains(ToLower(contentType), "application/json")

\* contentType.match(/application\/x-www-form-urlencoded/i)
IsForm(contentType) ==
    Contains(ToLower(contentType), "application/x-www-form-urlencoded")

\* A decoder that turns a JSON syntax error into an absent body.
DecodeSwallowsSyntaxError(contentType, data) ==
    IF IsJson(contentType)
    THEN (IF Len(data.v) > 0 /\ ~JsonParse(Utf8ToString(data.v)).threw
          THEN JsonParse(Utf8ToString(data.v))
          ELSE Return(Undefined))
    ELSE IF IsForm(contentType) THEN Return(QsParse(Utf8ToString(data.v)))
    ELSE Return(data)

\* A decoder without the test for the empty body.
DecodeParsesEmpty(contentType, data) ==
    IF IsJson(contentType) THEN JsonParse(Utf8ToString(data.v))
    ELSE IF IsForm(contentType) THEN Return(QsParse(Utf8ToString(data.v)))
    ELSE Return(data)

\* The first .then callback: the body decoded from the whole data.
Decode(contentType, data) ==
    IF IsJson(contentType)
    THEN (IF Len(data.v) > 0 THEN JsonParse(Utf8ToString(data.v))
          ELSE Return(Undefined))
    ELSE IF IsForm(contentType) THEN Return(QsParse(Utf8ToString(data.v)))
    ELSE Return(data)

\* An addBody whose accumulator is shared by the invocations: a later call
\* starts from the chunks the first call has collected.
AddBodySharingChunks(i) ==
    /\ ~inv[i].called
    /\ \A j \in Invocations : j < i => inv[j].called
    /\ inv' = [inv EXCEPT ![i] =
                  [NotCalled EXCEPT !.called = TRUE,
                                    !.contentType = ContentTypeOf(req),
                                    !.chunks = inv[1].chunks,
                                    !.subAt = Len(log)]]
    /\ UNCHANGED <<sent, req, budget, log, thrown>>

\* addBody(req) up to its return: the content type is read, the promise is
\* created and its executor registers the three listeners.
AddBody(i) ==
    /\ ~inv[i].called
    /\ \A j \in Invocations : j < i => inv[j].called
    /\ inv' = [inv EXCEPT ![i] =
                  [NotCalled EXCEPT !.called = TRUE,
                                    !.contentType = ContentTypeOf(req),
                                    !.subAt = Len(log)]]
    /\ UNCHANGED <<sent, req, budget, log, thrown>>

\* The stream flows once a 'data' listener is registered.
Flowing == \E i \in Invocations : inv[i].called

\* A 'data' listener that puts the chunk in front of the earlier ones.
OnDataPrepends(state, chunk) == [state EXCEPT !.chunks = <<chunk>> \o @]

\* The 'data' listeners: chunk => chunks.push(chunk)
OnData(state, chunk) == [state EXCEPT !.chunks = Append(@, chunk)]

\* The 'end' listeners: () => resolve(Buffer.concat(chunks))
OnEnd(state) ==
    [state EXCEPT !.p1 = Resolve(@, Buf(BufferConcat(state.chunks))),
                  !.concats = @ + 1]

\* An 'error' listener that settles with the chunks that did arrive.
OnErrorKeepsPartial(state, cause) ==
    [state EXCEPT !.p1 = Resolve(@, Buf(BufferConcat(state.chunks))),
                  !.concats = @ + 1]

\* The 'error' listeners: reject
OnError(state, cause) == [state EXCEPT !.p1 = Reject(@, cause)]

\* The stream emits 'data' with a chunk, of any length the budget allows;
\* no data follows 'end'.
StreamData ==
    /\ Flowing
    /\ ~Emitted("end")
    /\ budget.chunks > 0
    /\ \E chunk \in ChunksWithin[budget.bytes] :
          /\ inv' = [i \in Invocations |->
                       IF inv[i].called THEN OnData(inv[i], chunk) ELSE inv[i]]
          /\ log' = Append(log, Event("data", Buf(chunk)))
          /\ budget' = [chunks |-> budget.chunks - 1,
                        bytes |-> budget.bytes - Len(chunk)]
    /\ UNCHANGED <<sent, req, thrown>>

\* The stream emits 'end'.
StreamEnd ==
    /\ Flowing
    /\ ~Emitted("end")
    /\ inv' = [i \in Invocations |->
                 IF inv[i].called THEN OnEnd(inv[i]) ELSE inv[i]]
    /\ log' = Append(log, Event("end", Undefined))
    /\ UNCHANGED <<sent, req, budget, thrown>>

\* The stream emits 'error' with a cause.
StreamError ==
    /\ Flowing
    /\ ~Emitted("error")
    /\ \E c \in StreamCauses :
          /\ inv' = [i \in Invocations |->
                       IF inv[i].called THEN OnError(inv[i], Err("Error", c))
                       ELSE inv[i]]
          /\ log' = Append(log, Event("error", Err("Error", c)))
    /\ UNCHANGED <<sent, req, budget, thrown>>

\* The reaction of .then(data => ...): runs once the first promise settled.
ThenDecode(i) ==
    /\ inv[i].called
    /\ inv[i].p1.state # "pending"
    /\ inv[i].p2.state = "pending"
    /\ inv' = [inv EXCEPT ![i].p2 =
                  Then(inv[i].p1, Decode(inv[i].contentType, inv[i].p1.value))]
    /\ UNCHANGED <<sent, req, budget, log, thrown>>

\* The reaction of .then(body => Object.assign(req, {body})).
ThenAssign(i) ==
    /\ inv[i].called
    /\ inv[i].p2.state # "pending"
    /\ inv[i].p3.state = "pending"
    /\ inv' = [inv EXCEPT ![i].p3 = Then(inv[i].p2, Return(ReqRef))]
    /\ req' = IF inv[i].p2.state = "fulfilled"
              THEN ObjectAssign(req, "body" :> inv[i].p2.value)
              ELSE req
    /\ UNCHANGED <<sent, budget, log, thrown>>

---------------------------------------------------------------------------
(* The requests and behaviours of addBody alone. *)

ContentTypes ==
    {"text/json", "application/json", "Application/JSON; charset=utf-8",
     "Application/X-WWW-Form-Urlencoded"}

BodyHeaders ==
    {EmptyObject} \cup {"content-type" :> Str(c) : c \in ContentTypes}

InitBody ==
    /\ \E h \in BodyHeaders : sent = [headers |-> h, url |-> "/upload"]
    /\ req = NewRequest(sent.headers, sent.url)
    /\ budget = [chunks |-> MaxChunks, bytes |-> MaxBytes]
    /\ log = <<>>
    /\ inv = [i \in Invocations |-> NotCalled]
    /\ thrown = {}

\* One call of addBody and a stream that may emit its events in any order.
Next ==
    \/ AddBody(1)
    \/ StreamData
    \/ StreamEnd
    \/ StreamError
    \/ ThenDecode(1)
    \/ ThenAssign(1)

Spec == InitBody /\ [][Next]_vars

\* The stream as the server provides it: chunks, then exactly one of 'end'
\* and 'error', and nothing after it.
Open == ~Emitted("end") /\ ~Emitted("error")

---------------------------------------------------------------------------
(* What an invocation of addBody was told by the stream, read off the log  *)
(* of the stream alone.                                                    *)

\* The events emitted since invocation i registered its listeners.
Heard(i) == SubSeq(log, inv[i].subAt + 1, Len(log))

NoEvent == Event("none", Undefined)

\* The first 'end' or 'error' among the events, NoEvent when there is none.
RECURSIVE FirstTerminal(_)
FirstTerminal(events) ==
    IF events = <<>> THEN NoEvent
    ELSE IF Head(events).ev # "data" THEN Head(events)
    ELSE FirstTerminal(Tail(events))

\* The bytes of the chunks that precede the first 'end' or 'error'.
RECURSIVE BytesBeforeTerminal(_)
BytesBeforeTerminal(events) ==
    IF events = <<>> \/ Head(events).ev # "data" THEN <<>>
    ELSE Head(events).arg.v \o BytesBeforeTerminal(Tail(events))

Settled(p) == p.state # "pending"

\* The content type the client sent, "" when it sent none.
SentContentType ==
    IF "content-type" \in DOMAIN sent.headers
    THEN sent.headers["content-type"].v ELSE ""

\* The content types of the model that name JSON, and form encoding, in
\* any case of the letters.
JsonTypes == {c \in ContentTypes : Contains(ToLower(c), "application/json")}
FormTypes ==
    {c \in ContentTypes : Contains(ToLower(c), "application/x-www-form-urlencoded")}

SentJson == SentContentType \in JsonTypes
SentForm == SentContentType \in FormTypes

\* JSON.parse and querystring.parse of the text of every body the client
\* can send.
ParsedJson == [b \in ByteSeqs(MaxBytes) |-> JsonParse(Utf8ToString(b))]
ParsedForm == [b \in ByteSeqs(MaxBytes) |-> QsParse(Utf8ToString(b))]

---------------------------------------------------------------------------
(* C1: the first 'end' or 'error' the stream delivers, and only that one,  *)
(* settles addBody's result.  After 'error' first, a later 'end' neither   *)
(* fulfils any promise of the chain nor attaches req.body; after 'end'     *)
(* first, the first promise holds the data and a later 'error' never       *)
(* becomes the result; before either, nothing is settled; and a settled    *)
(* promise never changes again.                                            *)

SettledByFirstTerminal(i) ==
    LET first == FirstTerminal(Heard(i))
        c == inv[i]
    IN  /\ first.ev = "none" =>
              ~Settled(c.p1) /\ ~Settled(c.p2) /\ ~Settled(c.p3)
        /\ first.ev = "error" =>
              /\ c.p1 = Rejected(first.arg)
              /\ c.p2 \in {Pending, Rejected(first.arg)}
              /\ c.p3 \in {Pending, Rejected(first.arg)}
        /\ first.ev = "end" =>
              /\ c.p1 = Fulfilled(Buf(BytesBeforeTerminal(Heard(i))))
              /\ \A k \in 1..Len(log) :
                    log[k].ev = "error" =>
                        c.p2 # Rejected(log[k].arg) /\ c.p3 # Rejected(log[k].arg)

SettlesOnce(i) ==
    /\ Settled(inv[i].p1) => inv'[i].p1 = inv[i].p1
    /\ Settled(inv[i].p2) => inv'[i].p2 = inv[i].p2
    /\ Settled(inv[i].p3) => inv'[i].p3 = inv[i].p3

C1_FirstTerminalEventSettles ==
    /\ [](inv[1].called =>
            /\ SettledByFirstTerminal(1)
            /\ FirstTerminal(Heard(1)).ev = "error" => "body" \notin DOMAIN req)
    /\ [][SettlesOnce(1)]_vars

\* 'error', then a chunk, then 'end': the result is the rejection.
C1_Witness ==
    /\ Len(log) = 3
    /\ log[1].ev = "error" /\ log[2].ev = "data" /\ log[3].ev = "end"
    /\ inv[1].p3 = Rejected(log[1].arg)

---------------------------------------------------------------------------
(* C2: the stream emits 'error', before or after data.  As claimed: the    *)
(* failure is a StreamError that carries the emitted error as its cause,   *)
(* and the chunks are never concatenated.                                  *)

IsStreamError(e, cause) ==
    /\ e.t = "Error"
    /\ e.v.name = "StreamError"
    /\ "cause" \in DOMAIN e.v
    /\ e.v.cause = cause

---------------------------------------------------------------------------
(* C3: with a content type that names neither JSON nor form encoding (or   *)
(* none), once 'end' is the first terminal event no promise of the chain   *)
(* is rejected, and the body attached is the buffer of the chunks' bytes   *)
(* in arrival order.                                                       *)

C3_RawBodyIsTheBytes ==
    (/\ inv[1].called
     /\ ~SentJson /\ ~SentForm
     /\ FirstTerminal(Heard(1)).ev = "end") =>
        /\ inv[1].p2.state # "rejected"
        /\ inv[1].p3.state # "rejected"
        /\ Settled(inv[1].p2) =>
               inv[1].p2 = Fulfilled(Buf(BytesBeforeTerminal(Heard(1))))
        /\ Settled(inv[1].p3) =>
               /\ inv[1].p3 = Fulfilled(ReqRef)
               /\ "body" \in DOMAIN req
               /\ req["body"] = Buf(BytesBeforeTerminal(Heard(1)))

\* "1", then the byte 0xFF, then 'end', content type text/json.
C3_Witness ==
    /\ SentContentType = "text/json"
    /\ ~SentJson /\ ~SentForm
    /\ log = <<Event("data", Buf(<<49>>)), Event("data", Buf(<<255>>)),
               Event("end", Undefined)>>
    /\ inv[1].p3.state = "fulfilled"
    /\ req["body"] = Buf(<<49, 255>>)

---------------------------------------------------------------------------
(* C4: a JSON content type and a completed, non-empty body that is not     *)
(* JSON.  As claimed: the failure is a BodyParseError that carries the     *)
(* content type "json" and the parser's message.                           *)

InvalidJsonArrived ==
    /\ inv[1].called
    /\ SentJson
    /\ FirstTerminal(Heard(1)).ev = "end"
    /\ BytesBeforeTerminal(Heard(1)) # <<>>
    /\ ParsedJson[BytesBeforeTerminal(Heard(1))].threw

IsBodyParseError(e) ==
    /\ e.t = "Error"
    /\ e.v.name = "BodyParseError"
    /\ "contentType" \in DOMAIN e.v
    /\ e.v.contentType = "json"

---------------------------------------------------------------------------
(* C5: a JSON content type and a stream that ends with no byte at all.     *)
(* The decoded body is undefined, never null, no promise of the chain is   *)
(* rejected (the empty text is never given to JSON.parse, which would      *)
(* throw), and req.body is attached with the value undefined.              *)

C5_EmptyJsonBodyIsUndefined ==
    (/\ inv[1].called
     /\ SentJson
     /\ FirstTerminal(Heard(1)).ev = "end"
     /\ BytesBeforeTerminal(Heard(1)) = <<>>) =>
        /\ ParsedJson[<<>>].threw
        /\ inv[1].p2 \in {Pending, Fulfilled(Undefined)}
        /\ inv[1].p2.value # Null
        /\ inv[1].p3 \in {Pending, Fulfilled(ReqRef)}
        /\ Settled(inv[1].p3) =>
               "body" \in DOMAIN req /\ req["body"] = Undefined

\* Two empty chunks, then 'end', content type in mixed case.
C5_Witness ==
    /\ SentContentType = "Application/JSON; charset=utf-8"
    /\ SentJson
    /\ log = <<Event("data", Buf(<<>>)), Event("data", Buf(<<>>)),
               Event("end", Undefined)>>
    /\ inv[1].p3 = Fulfilled(ReqRef)
    /\ req["body"] = Undefined

---------------------------------------------------------------------------
(* Two calls of addBody on one request, the stream emitting one terminal   *)
(* event.                                                                  *)

TwiceHeaders == {EmptyObject, "content-type" :> Str("application/json")}

InitTwice ==
    /\ \E h \in TwiceHeaders : sent = [headers |-> h, url |-> "/upload"]
    /\ req = NewRequest(sent.headers, sent.url)
    /\ budget = [chunks |-> MaxChunks, bytes |-> MaxBytes]
    /\ log = <<>>
    /\ inv = [i \in Invocations |-> NotCalled]
    /\ thrown = {}

NextTwice ==
    \/ \E i \in Invocations : AddBody(i)
    \/ Open /\ StreamData
    \/ Open /\ StreamEnd
    \/ Open /\ StreamError
    \/ \E i \in Invocations : ThenDecode(i)
    \/ \E i \in Invocations : ThenAssign(i)

SpecTwice == InitTwice /\ [][NextTwice]_vars

(* C6, as claimed: the second call never resolves. *)

C6_AsClaimed == inv[2].p3.state # "fulfilled"

(* C6, amended: the second call is settled by the events the stream emits  *)
(* after it registered its listeners, as the first call is by its own: it  *)
(* stays pending when no 'end' or 'error' follows it (so always when it is *)
(* made after the terminal event), fails with the stream's error when      *)
(* 'error' follows, and when 'end' follows it gets the body decoded from   *)
(* exactly the chunks delivered after it registered, which succeeds unless *)
(* those bytes fail to parse.                                              *)

C6_SecondCallSeesTheRest ==
    inv[2].called =>
        LET first == FirstTerminal(Heard(2))
            c == inv[2]
            rest == Buf(BytesBeforeTerminal(Heard(2)))
            body == IF SentJson
                    THEN (IF rest.v = <<>> THEN Return(Undefined)
                          ELSE ParsedJson[rest.v])
                    ELSE IF SentForm THEN Return(ParsedForm[rest.v])
                    ELSE Return(rest)
        IN  /\ first.ev = "none" =>
                  ~Settled(c.p1) /\ ~Settled(c.p2) /\ ~Settled(c.p3)
            /\ first.ev = "error" =>
                  /\ c.p1 = Rejected(first.arg)
                  /\ c.p2 \in {Pending, Rejected(first.arg)}
                  /\ c.p3 \in {Pending, Rejected(first.arg)}
            /\ first.ev = "end" =>
                  /\ c.p1 = Fulfilled(rest)
                  /\ c.p2 \in {Pending, Then(Fulfilled(rest), body)}
                  /\ c.p3 \in {Pending, Then(c.p2, Return(ReqRef))}

\* The second call is made after the chunk "1" and resolves after 'end',
\* having seen only the chunk "[".
C6_Witness ==
    /\ inv[2].subAt = 1
    /\ log = <<Event("data", Buf(<<49>>)), Event("data", Buf(<<91>>)),
               Event("end", Undefined)>>
    /\ ~SentJson /\ ~SentForm
    /\ inv[2].p2 = Fulfilled(Buf(<<91>>))
    /\ inv[2].p3 = Fulfilled(ReqRef)

---------------------------------------------------------------------------
(* addXhr. *)

\* ToString(value), as a regular expression's test and the == operator
\* apply it to a header value.
RECURSIVE JoinStrings(_, _)
JoinStrings(elements, sep) ==
    IF elements = <<>> THEN ""
    ELSE IF Len(elements) = 1 THEN Head(elements).v
    ELSE Head(elements).v \o sep \o JoinStrings(Tail(elements), sep)

JsToString(value) ==
    IF value.t = "undefined" THEN "undefined"
    ELSE IF value.t = "array" THEN JoinStrings(value.v, ",")
    ELSE value.v

\* value == text
LooseEqualsString(value, text) ==
    value.t \in {"string", "array"} /\ JsToString(value) = text

\* An addXhr that looks at the path of the URL, without the query string.
XhrOfPathname(request) ==
    \/ LooseEqualsString(Header(request, "x-requested-with"), "XMLHttpRequest")
    \/ EndsWith(Slice(JsToString(request["url"]), 0,
                      FirstOfAny(JsToString(request["url"]), {"?", "#"}, 0)), ".json")
    \/ ~Contains(JsToString(Header(request, "accept")), "text/html")

XhrOf(request) ==
    \/ LooseEqualsString(Header(request, "x-requested-with"), "XMLHttpRequest")
    \/ EndsWith(JsToString(request["url"]), ".json")
    \/ ~Contains(JsToString(Header(request, "accept")), "text/html")

AddXhr ==
    /\ req' = ObjectAssign(req, "xhr" :> Bool(XhrOf(req)))
    /\ UNCHANGED <<sent, budget, log, inv, thrown>>

---------------------------------------------------------------------------
(* addCookies. *)

\* if (cookieHeader)
Truthy(value) ==
    /\ value.t # "undefined"
    /\ value.t = "string" => value.v # ""

RECURSIVE SkipSpaces(_)
SkipSpaces(s) ==
    IF s # "" /\ At(s, 1) = " " THEN SkipSpaces(SliceFrom(s, 1)) ELSE s

\* cookieHeaderString.split(/;\s*/)
RECURSIVE SplitCookies(_)
SplitCookies(s) ==
    LET i == IndexOf(s, ";")
    IN  IF i < 0 THEN <<s>>
        ELSE <<Slice(s, 0, i)>> \o SplitCookies(SkipSpaces(SliceFrom(s, i + 1)))

\* The forEach over the cookie strings; an exception of decodeURIComponent
\* ends it.
RECURSIVE CollectCookies(_, _)
CollectCookies(cookieStrings, cookies) ==
    IF cookieStrings = <<>> THEN Return(Obj(cookies))
    ELSE LET cookieString == Head(cookieStrings)
             splitAt == IndexOf(cookieString, "=")
             name == Slice(cookieString, 0, splitAt)
             value == SliceFrom(cookieString, splitAt + 1)
             decoded == DecodeURIComponent(value)
         IN  IF decoded.threw THEN decoded
             ELSE CollectCookies(Tail(cookieStrings),
                                 SetProperty(cookies, name, Str(decoded.value)))

\* The cookies object addCookies builds, or the exception it throws.
CookiesOf(request) ==
    LET cookieHeader == Header(request, "cookie")
        cookieHeaderString ==
            IF cookieHeader.t = "array" THEN JoinStrings(cookieHeader.v, ";")
            ELSE cookieHeader.v
    IN  IF Truthy(cookieHeader)
        THEN CollectCookies(SplitCookies(cookieHeaderString), EmptyObject)
        ELSE Return(Obj(EmptyObject))

Thrown(transform, error) == [by |-> transform, error |-> error]

AddCookies ==
    LET r == CookiesOf(req)
    IN  /\ req' = IF r.threw THEN req ELSE ObjectAssign(req, "cookies" :> r.value)
        /\ thrown' = IF r.threw THEN thrown \cup {Thrown("addCookies", r.value)}
                     ELSE thrown
        /\ UNCHANGED <<sent, budget, log, inv>>

---------------------------------------------------------------------------
(* addUrlObj, and url.parse(url, true) for URLs written with letters,      *)
(* digits and the delimiters of a URL.                                     *)

RECURSIVE LastIndexBefore(_, _, _)
LastIndexBefore(s, c, i) ==
    IF i = 0 THEN -1
    ELSE IF At(s, i) = c THEN i - 1
    ELSE LastIndexBefore(s, c, i - 1)

\* s.lastIndexOf(c)
LastIndexOf(s, c) == LastIndexBefore(s, c, Len(s))

ProtocolChars == CharsOf(Lower) \cup CharsOf(Upper) \cup DigitChars \cup {".", "+", "-"}
NonProtocolChars == CharsOf(Ascii) \ ProtocolChars

\* The length of the match of /^[a-z0-9.+-]+:/i, 0 when there is none.
ProtocolLength(url) ==
    LET stop == FirstOfAny(url, NonProtocolChars, 0)
    IN  IF stop > 0 /\ stop < Len(url) /\ At(url, stop + 1) = ":"
        THEN stop + 1 ELSE 0

SlashedProtocols == {"http:", "https:", "ftp:", "gopher:", "file:", "ws:", "wss:"}
HostlessProtocols == {"javascript:"}

NullOr(text) == IF text = "" THEN Null ELSE Str(text)

\* The end of the host name proper: the start of a trailing :port.
PortStart(host) ==
    LET colon == LastIndexOf(host, ":")
    IN  IF colon >= 0
           /\ \A k \in (colon + 2)..Len(host) : IsDigit(At(host, k))
        THEN colon ELSE Len(host)

\* The protocol and the slashes after it.
WithProtocol(url) ==
    LET plen == ProtocolLength(url)
        afterProto == SliceFrom(url, plen)
        slashes == plen > 0 /\ StartsWith(afterProto, "//")
    IN  [protocol |-> ToLower(Slice(url, 0, plen)),
         slashes |-> slashes,
         rest |-> IF slashes THEN SliceFrom(afterProto, 2) ELSE afterProto]

\* The auth part: what precedes the last @ before the first / ? or #.
WithAuth(u) ==
    LET hasHost == /\ u.protocol \notin HostlessProtocols
                   /\ \/ u.slashes
                      \/ u.protocol # "" /\ u.protocol \notin SlashedProtocols
        hostEnd == FirstOfAny(u.rest, {"/", "?", "#"}, 0)
        atSign == LastIndexOf(Slice(u.rest, 0, hostEnd), "@")
        hasAuth == hasHost /\ atSign >= 0
    IN  [hasHost |-> hasHost,
         hasAuth |-> hasAuth,
         auth |-> IF hasAuth THEN Slice(u.rest, 0, atSign) ELSE "",
         rest |-> IF hasAuth THEN SliceFrom(u.rest, atSign + 1) ELSE u.rest]
        @@ u

\* The host: up to the first / ? or #.
WithHost(u) ==
    LET host == IF u.hasHost
                THEN Slice(u.rest, 0, FirstOfAny(u.rest, {"/", "?", "#"}, 0))
                ELSE ""
    IN  [host |-> host, rest |-> SliceFrom(u.rest, Len(host))] @@ u

\* The host name and the port.
WithPort(u) ==
    [hostname |-> ToLower(Slice(u.host, 0, PortStart(u.host))),
     port |-> SliceFrom(u.host, PortStart(u.host) + 1)] @@ u

\* The hash: from the first #.
WithHash(u) ==
    LET hashAt == FirstOfAny(u.rest, {"#"}, 0)
    IN  [hash |-> SliceFrom(u.rest, hashAt), rest |-> Slice(u.rest, 0, hashAt)]
        @@ u

\* The search, from the first ?, and the pathname before it.
WithQuery(u) ==
    LET queryAt == FirstOfAny(u.rest, {"?"}, 0)
        path == Slice(u.rest, 0, queryAt)
    IN  [search |-> SliceFrom(u.rest, queryAt),
         query |-> SliceFrom(u.rest, queryAt + 1),
         pathname |-> IF /\ path = ""
                         /\ u.protocol \in SlashedProtocols
                         /\ u.hostname # ""
                      THEN "/" ELSE path] @@ u

\* The Url object of the parts, or the URIError thrown for an auth part
\* that cannot be decoded.
UrlObject(u) ==
    LET auth == DecodeURIComponent(u.auth)
    IN  IF u.hasAuth /\ auth.threw THEN auth
        ELSE Return(
            ("protocol" :> NullOr(u.protocol)) @@
            ("slashes" :> (IF u.slashes THEN Bool(TRUE) ELSE Null)) @@
            ("auth" :> (IF u.hasAuth THEN Str(auth.value) ELSE Null)) @@
            ("host" :> NullOr(ToLower(u.host))) @@
            ("port" :> NullOr(u.port)) @@
            ("hostname" :> (IF u.hasHost THEN Str(u.hostname) ELSE Null)) @@
            ("hash" :> NullOr(u.hash)) @@
            ("search" :> Str(u.search)) @@
            ("query" :> QsParse(u.query)) @@
            ("pathname" :> NullOr(u.pathname)) @@
            ("path" :> NullOr(u.pathname \o u.search)))

\* url.parse(url, true): each part is computed once from the parts before
\* it, as the statements of url.parse compute each local once.
UrlParse(url) ==
    LET withProtocol == {WithProtocol(url)}
        withAuth == {WithAuth(u) : u \in withProtocol}
        withHost == {WithHost(u) : u \in withAuth}
        withPort == {WithPort(u) : u \in withHost}
        withHash == {WithHash(u) : u \in withPort}
        withQuery == {WithQuery(u) : u \in withHash}
    IN  CHOOSE parsed \in {UrlObject(u) : u \in withQuery} : TRUE

\* The properties addUrlObj takes from the parsed Url.
UrlFieldNames ==
    {"protocol", "auth", "hostname", "port", "pathname", "query", "hash"}

\* An addUrlObj that assigns the parsed Url as it is.
UrlObjWhole(parsed) == parsed

\* {protocol, auth, hostname, port, pathname, query, hash}
UrlObjOf(parsed) == [k \in UrlFieldNames |-> parsed[k]]

AddUrlObj ==
    LET r == UrlParse(JsToString(req["url"]))
    IN  /\ req' = IF r.threw THEN req ELSE ObjectAssign(req, UrlObjOf(r.value))
        /\ thrown' = IF r.threw THEN thrown \cup {Thrown("addUrlObj", r.value)}
                     ELSE thrown
        /\ UNCHANGED <<sent, budget, log, inv>>

---------------------------------------------------------------------------
(* The synchronous transforms on every short cookie header.                *)

CookieAlphabet == "a=; %4"

CookieHeaders ==
    {Str(c) : c \in StringsUpTo(CookieAlphabet, MaxCookieLen)}
    \cup {Arr(<<Str(c), Str(d)>>) :
              c \in StringsUpTo(CookieAlphabet, MaxListedCookieLen),
              d \in StringsUpTo(CookieAlphabet, MaxListedCookieLen)}

SyncHeaders == {EmptyObject} \cup {"cookie" :> c : c \in CookieHeaders}

SyncUrls == {"/", "http://%@h/"}

InitSync ==
    /\ \E h \in SyncHeaders, u \in SyncUrls : sent = [headers |-> h, url |-> u]
    /\ req = NewRequest(sent.headers, sent.url)
    /\ budget = [chunks |-> 0, bytes |-> 0]
    /\ log = <<>>
    /\ inv = [i \in Invocations |-> NotCalled]
    /\ thrown = {}

NextSync ==
    \/ AddXhr
    \/ AddUrlObj
    \/ AddCookies

SpecSync == InitSync /\ [][NextSync]_vars

(* C7, as claimed: addCookies, addXhr and addUrlObj never throw. *)

C7_AsClaimed == thrown = {}

(* C8, as claimed: the cookies are the segments between ";" and the        *)
(* whitespace after it, each split at its first "="; a segment without     *)
(* "=" is a name with the empty value; the last value of a name is kept;   *)
(* no cookie header gives the empty mapping.                               *)

RECURSIVE ClaimedCookies(_, _)
ClaimedCookies(segments, cookies) ==
    IF segments = <<>> THEN cookies
    ELSE LET segment == Head(segments)
             eq == IndexOf(segment, "=")
             name == IF eq < 0 THEN segment ELSE SubSeq(segment, 1, eq)
             value == IF eq < 0 THEN ""
                      ELSE DecodeURIComponent(
                               SubSeq(segment, eq + 2, Len(segment))).value
         IN  ClaimedCookies(Tail(segments), SetProperty(cookies, name, Str(value)))

SentCookieText ==
    IF "cookie" \notin DOMAIN sent.headers THEN ""
    ELSE JsToString([sent.headers["cookie"] EXCEPT
                        !.v = IF sent.headers["cookie"].t = "array"
                              THEN JoinStrings(@, ";") ELSE @,
                        !.t = "string"])

C8_AsClaimed ==
    "cookies" \in DOMAIN req =>
        req["cookies"] =
            Obj(IF SentCookieText = "" THEN EmptyObject
                ELSE ClaimedCookies(SplitCookies(SentCookieText), EmptyObject))

---------------------------------------------------------------------------
(* addXhr on combinations of its three inputs. *)

XhrRequestedWith == {"XMLHttpRequest", "xmlhttprequest", "XMLHttpRequest2"}

XhrAccepts ==
    {"", "text/html", "text/html,application/json", "text/plain", "TEXT/HTML",
     "application/xhtml+xml,text/html;q=0.9"}

XhrUrls ==
    {"/", "/report.json", "/report.json?x=1", "/report.jsonp", "/a?f=.json",
     "/a.JSON", ".json"}

XhrHeaders ==
    {x @@ a : x \in {EmptyObject} \cup {"x-requested-with" :> Str(v) : v \in XhrRequestedWith},
              a \in {EmptyObject} \cup {"accept" :> Str(v) : v \in XhrAccepts}}

InitXhr ==
    /\ \E h \in XhrHeaders, u \in XhrUrls : sent = [headers |-> h, url |-> u]
    /\ req = NewRequest(sent.headers, sent.url)
    /\ budget = [chunks |-> 0, bytes |-> 0]
    /\ log = <<>>
    /\ inv = [i \in Invocations |-> NotCalled]
    /\ thrown = {}

NextXhr == AddXhr

SpecXhr == InitXhr /\ [][NextXhr]_vars

(* C9: xhr is true exactly when the x-requested-with header is             *)
(* "XMLHttpRequest", or the raw URL ends with ".json", or the accept       *)
(* header does not contain "text/html" (an absent header contains          *)
(* nothing).                                                               *)

SentHeader(name) ==
    IF name \in DOMAIN sent.headers THEN sent.headers[name].v ELSE ""

---------------------------------------------------------------------------
(* The four transforms on one request, in any order. *)

AllHeaders ==
    {t @@ c @@ a :
        t \in {EmptyObject, "content-type" :> Str("application/json")},
        c \in {EmptyObject, "cookie" :> Str("a=1; b=%44"), "cookie" :> Str("a=%")},
        a \in {EmptyObject, "accept" :> Str("text/html")}}

AllUrls == {"/report.json?x=1", "https://User@Example.com:8080/a/b?x=1#frag"}

InitAll ==
    /\ \E h \in AllHeaders, u \in AllUrls : sent = [headers |-> h, url |-> u]
    /\ req = NewRequest(sent.headers, sent.url)
    /\ budget = [chunks |-> 1, bytes |-> 1]
    /\ log = <<>>
    /\ inv = [i \in Invocations |-> NotCalled]
    /\ thrown = {}

NextAll ==
    \/ AddBody(1)
    \/ Open /\ StreamData
    \/ Open /\ StreamEnd
    \/ Open /\ StreamError
    \/ ThenDecode(1)
    \/ ThenAssign(1)
    \/ AddXhr
    \/ AddUrlObj
    \/ AddCookies

SpecAll == InitAll /\ [][NextAll]_vars

(* C10: a step of a transform changes no property of the request but the   *)
(* transform's own (body; xhr; cookies; protocol, auth, hostname, port,    *)
(* pathname, query, hash), removes none, and never changes headers or url; *)
(* so whatever the order of the transforms, and however often the          *)
(* synchronous ones run, every field the request carries has the value     *)
(* the request as received determines.                                     *)

Changed == {k \in DOMAIN req' : k \notin DOMAIN req \/ req'[k] # req[k]}

TouchesOnly(names) == DOMAIN req \subseteq DOMAIN req' /\ Changed \subseteq names

OwnFieldsOnly ==
    /\ AddXhr => TouchesOnly({"xhr"})
    /\ AddCookies => TouchesOnly({"cookies"})
    /\ AddUrlObj => TouchesOnly(UrlFieldNames)
    /\ ThenAssign(1) => TouchesOnly({"body"})
    /\ (AddBody(1) \/ StreamData \/ StreamEnd \/ StreamError \/ ThenDecode(1))
           => TouchesOnly({})

ReceivedBody ==
    LET data == Buf(BytesBeforeTerminal(Heard(1)))
    IN  IF SentContentType = "application/json"
        THEN (IF data.v = <<>> THEN Undefined ELSE ParsedJson[data.v].value)
        ELSE data

FieldsFromTheRequest ==
    LET received == NewRequest(sent.headers, sent.url)
    IN  /\ DOMAIN req \subseteq
               {"headers", "url", "body", "xhr", "cookies"} \cup UrlFieldNames
        /\ req["headers"] = received["headers"]
        /\ req["url"] = received["url"]
        /\ "xhr" \in DOMAIN req => req["xhr"] = Bool(XhrOf(received))
        /\ "cookies" \in DOMAIN req => req["cookies"] = CookiesOf(received).value
        /\ "hash" \in DOMAIN req =>
               \A k \in UrlFieldNames : req[k] = UrlParse(sent.url).value[k]
        /\ "body" \in DOMAIN req => req["body"] = ReceivedBody

C10_TransformsTouchOwnFields ==
    /\ []FieldsFromTheRequest
    /\ [][OwnFieldsOnly]_vars

\* All four transforms have run on a request with a body.
C10_Witness ==
    /\ {"body", "xhr", "cookies"} \cup UrlFieldNames \subseteq DOMAIN req
    /\ req["body"] = Num(1)
    /\ req["headers"] = Obj(sent.headers)
    /\ req["url"] = Str(sent.url)

===========================================================================
